---- MODULE Spec2Model ----
(***************************************************************************)
(* Model of the Firestore camera cleanup + hotspot worker                  *)
(* (src/unnamed/part_001, the "hide, then delete after the window" job).   *)
(*                                                                         *)
(* Time is counted in hours (MS_HOUR = 1).  Coordinates are counted in     *)
(* units of 0.00001 degree, so that toFixed(4) is a real rounding.         *)
(* A missing (undefined/null) numeric field is the value Undef; a missing  *)
(* type is the empty string; hotspot/removed/removedByWorker are only ever *)
(* tested for truthiness by the code, so a missing flag is FALSE.          *)
(***************************************************************************)
EXTENDS Integers, Sequences, FiniteSets, TLC

VARIABLES cameras,          \* collection 'cameras': id -> document or NoDoc
          camera_hotspots,  \* collection 'camera_hotspots': set of summary documents
          camera_reports,   \* collection 'camera_reports' (append-only, external)
          clock,            \* Date.now()
          ticks,            \* number of clock advances so far
          inv,              \* per invocation of main(): pc, now, cams, pending writes, ...
          deleted           \* history: documents the job has physically deleted

vars == <<cameras, camera_hotspots, camera_reports, clock, ticks, inv, deleted>>

----------------------------------------------------------------------------
(* Configuration of the job                                                *)

MOBILE_EXPIRE_HOURS == 10
OTHER_EXPIRE_HOURS == 10
FIXED_REMOVE_THRESHOLD == -3
HOTSPOT_RADIUS_M == 200
HOTSPOT_WINDOW_DAYS == 10
HOTSPOT_THRESHOLD == 3
PRESERVE_HOTSPOT_DAYS == 10
MS_HOUR == 1
MS_DAY == 24

(* Bounds of the model                                                     *)
NumIds == 3        \* document ids of 'cameras' are 1..NumIds
MaxPasses == 2     \* invocations of main() in sequence
MaxTicks == 1      \* advances of the clock
Clock0 == 1000     \* initial value of the clock

Ids == 1..NumIds
Workers == {1, 2}

Undef == -100
NoDoc == [exists |-> FALSE]

----------------------------------------------------------------------------
(* JavaScript coercions used by the job                                    *)

\* !x is false: x is neither undefined/null nor 0
Truthy(x) == x # Undef /\ x # 0

\* x || dflt
OrElse(x, dflt) == IF Truthy(x) THEN x ELSE dflt

Min(a, b) == IF a <= b THEN a ELSE b
Max(a, b) == IF a >= b THEN a ELSE b

RECURSIVE Concat(_)
Concat(ss) == IF ss = <<>> THEN <<>> ELSE Head(ss) \o Concat(Tail(ss))

\* const type = (d.type || 'mobile_camera')
TypeOf(d) == IF d.type = "" THEN "mobile_camera" ELSE d.type

\* mutant: the kind is compared with the wrong name
IsFixedWrongName(type) == type = "fixed"

\* type === 'fixed_camera'
IsFixed(type) == type = "fixed_camera"

\* const count = (typeof d.count === 'number') ? d.count : Number(d.count || 0)
CountOf(d) == IF d.count = Undef THEN 0 ELSE d.count

hotspotWindowCutoff(now) == now - HOTSPOT_WINDOW_DAYS * MS_DAY

----------------------------------------------------------------------------
(* Writes issued to the store                                              *)

Update(id, patch) == [op |-> "update", id |-> id, patch |-> patch]
Delete(id) == [op |-> "delete", id |-> id]

\* update({ removed: true, removedByWorker: true, lastSeen: now })
HidePatch(now) == [removed |-> TRUE, removedByWorker |-> TRUE, lastSeen |-> now]

----------------------------------------------------------------------------
(* 1) Per-doc maintenance                                                  *)

\* if (!d.timestamp) { update({timestamp: now}); d.timestamp = now }
EnsureTimestamp(d, now) ==
  IF ~Truthy(d.timestamp) THEN [d EXCEPT !.timestamp = now] ELSE d

\* let conf = (type === 'fixed_camera') ? 100 : 70
DefaultConfidence(type) == IF IsFixed(type) THEN 100 ELSE 70

\* if (d.confidence === undefined || d.confidence === null) { ... }
EnsureConfidence(d) ==
  IF d.confidence = Undef
  THEN [d EXCEPT !.confidence = DefaultConfidence(TypeOf(d))] ELSE d

lifetimeHours(type) ==
  IF type = "other" THEN OTHER_EXPIRE_HOURS ELSE MOBILE_EXPIRE_HOURS

\* if (!d.expiresAt) { expiresAt = (Number(d.timestamp) || now) + lifetimeHours * MS.HOUR }
EnsureExpiresAt(d, now) ==
  IF ~Truthy(d.expiresAt)
  THEN [d EXCEPT !.expiresAt =
          OrElse(d.timestamp, now) + lifetimeHours(TypeOf(d)) * MS_HOUR]
  ELSE d

\* if (!d.lastSeen) { lastSeen = d.timestamp || now }
EnsureLastSeen(d, now) ==
  IF ~Truthy(d.lastSeen)
  THEN [d EXCEPT !.lastSeen = OrElse(d.timestamp, now)] ELSE d

\* the write that persists one defaulted field, if the default was applied
FieldWrite(id, before, after, f) ==
  IF before[f] # after[f] THEN <<Update(id, (f :> after[f]))>> ELSE <<>>

\* mutant: a fixed camera is hidden as soon as its count is not positive
FixedWritesAtZero(d, id, now) ==
  (IF ~d.hotspot THEN <<Update(id, [hotspot |-> TRUE])>> ELSE <<>>)
  \o (IF CountOf(d) <= 0 /\ ~d.removed
      THEN <<Update(id, HidePatch(now))>> ELSE <<>>)

\* if (type === 'fixed_camera') { ...; continue }
FixedWrites(d, id, now) ==
  (IF ~d.hotspot THEN <<Update(id, [hotspot |-> TRUE])>> ELSE <<>>)
  \o (IF CountOf(d) <= FIXED_REMOVE_THRESHOLD /\ ~d.removed
      THEN <<Update(id, HidePatch(now))>> ELSE <<>>)

\* mutant: the lookback window is counted in hours
OlderThanWindowInHours(ts, now) == ts < now - HOTSPOT_WINDOW_DAYS * MS_HOUR

\* ts < windowCutoff
OlderThanWindow(ts, now) == ts < hotspotWindowCutoff(now)

\* mutant: the hide patch is issued without testing d.removed
DeleteOrHideUnguarded(d, id, now) ==
  LET ts == OrElse(d.timestamp, 0)
  IN IF OlderThanWindow(ts, now) THEN <<Delete(id)>>
     ELSE <<Update(id, HidePatch(now))>>

\* mutant: the record is deleted as soon as its count or expiry test fails
DeleteAtOnce(d, id, now) == <<Delete(id)>>

\* mutant: a record that is already removed is left alone
DeleteOrHideUnlessRemoved(d, id, now) ==
  LET ts == OrElse(d.timestamp, 0)
  IN IF d.removed THEN <<>>
     ELSE IF OlderThanWindow(ts, now) THEN <<Delete(id)>>
     ELSE <<Update(id, HidePatch(now))>>

\* delete only when older than the hotspot window, otherwise mark removed
DeleteOrHide(d, id, now) ==
  LET ts == OrElse(d.timestamp, 0)
  IN IF OlderThanWindow(ts, now) THEN <<Delete(id)>>
     ELSE IF ~d.removed THEN <<Update(id, HidePatch(now))>>
     ELSE <<>>

\* mutant: the preservation is counted in hours
ExtendPatchInHours(now) ==
  [expiresAt |-> now + PRESERVE_HOTSPOT_DAYS * MS_HOUR, lastSeen |-> now]

\* hotspot: extend preservation
ExtendPatch(now) ==
  [expiresAt |-> now + PRESERVE_HOTSPOT_DAYS * MS_DAY, lastSeen |-> now]

\* mutant: count < 0
VotedDownStrict(count) == count < 0

\* count <= 0
VotedDown(count) == count <= 0

\* the PATCH block: count test, then expiry test
LifecycleWrites(d, id, now) ==
  IF ~d.hotspot /\ VotedDown(CountOf(d)) THEN DeleteOrHide(d, id, now)
  ELSE IF Truthy(d.expiresAt) /\ d.expiresAt < now
       THEN IF ~d.hotspot THEN DeleteOrHide(d, id, now)
            ELSE <<Update(id, ExtendPatch(now))>>
       ELSE <<>>

\* the in-memory document d after the per-doc pass has run over it
InMem(d, now) ==
  LET d2 == EnsureConfidence(EnsureTimestamp(d, now))
  IN IF IsFixed(TypeOf(d)) THEN [d2 EXCEPT !.hotspot = TRUE]
     ELSE EnsureLastSeen(EnsureExpiresAt(d2, now), now)

\* the writes of one iteration of "for (const cam of cams)", in program order
MaintWrites(d, id, now) ==
  LET d1 == EnsureTimestamp(d, now)
      d2 == EnsureConfidence(d1)
      d3 == EnsureExpiresAt(d2, now)
      d4 == EnsureLastSeen(d3, now)
  IN FieldWrite(id, d, d1, "timestamp") \o FieldWrite(id, d1, d2, "confidence")
     \o (IF IsFixed(TypeOf(d)) THEN FixedWrites(d2, id, now)
         ELSE FieldWrite(id, d2, d3, "expiresAt")
              \o FieldWrite(id, d3, d4, "lastSeen")
              \o LifecycleWrites(d4, id, now))

\* all writes of the per-doc pass, over the snapshot in document order
MaintPlan(snap, now) ==
  Concat([i \in Ids |->
            IF snap[i] = NoDoc THEN <<>> ELSE MaintWrites(snap[i], i, now)])

----------------------------------------------------------------------------
(* 2) Hotspot detection                                                    *)

\* an entry of cams / reportDocs: { id, data }; reportDocs ids carry the r_ prefix
CamEntry(i, d) == [src |-> "cameras", id |-> i, data |-> d]
ReportEntry(j, d) == [src |-> "camera_reports", id |-> j, data |-> d]

\* cams after the per-doc pass (d is mutated in place; deleted docs stay in cams)
CamsAfterMaint(snap, now) ==
  LET all == [i \in Ids |->
                IF snap[i] = NoDoc THEN NoDoc ELSE CamEntry(i, InMem(snap[i], now))]
  IN SelectSeq(all, LAMBDA e : e # NoDoc)

\* camera_reports.where('timestamp', '>=', hotspotWindowCutoff).get()
ReportDocs(reports, now) ==
  LET all == [j \in 1..Len(reports) |-> ReportEntry(j, reports[j])]
  IN SelectSeq(all, LAMBDA e : e.data.timestamp # Undef
                                 /\ e.data.timestamp >= hotspotWindowCutoff(now))

\* the filter that builds mobileDocs
IsRecentMobile(e, now) ==
  /\ TypeOf(e.data) = "mobile_camera"
  /\ Truthy(e.data.timestamp)
  /\ e.data.timestamp >= hotspotWindowCutoff(now)

mobileDocs(cams, reportDocs, now) ==
  SelectSeq(cams, LAMBDA e : IsRecentMobile(e, now))
  \o SelectSeq(reportDocs, LAMBDA e : IsRecentMobile(e, now))

\* !od.lat || !od.lon || !od.timestamp
HasPosition(d) == Truthy(d.lat) /\ Truthy(d.lon) /\ Truthy(d.timestamp)

\* geolib.getDistance(a, b) <= HOTSPOT_RADIUS_M, on a plane near the equator:
\* one coordinate unit (0.00001 degree) is 1.11 m, so a difference of more than
\* HOTSPOT_RADIUS_M units in one coordinate is already beyond the radius
WithinRadius(lat1, lon1, lat2, lon2) ==
  LET dlat == lat1 - lat2
      dlon == lon1 - lon2
  IN /\ dlat * dlat <= HOTSPOT_RADIUS_M * HOTSPOT_RADIUS_M
     /\ dlon * dlon <= HOTSPOT_RADIUS_M * HOTSPOT_RADIUS_M
     /\ 111 * 111 * (dlat * dlat + dlon * dlon)
          <= (HOTSPOT_RADIUS_M * 100) * (HOTSPOT_RADIUS_M * 100)

\* mutant: a document that is already hotspot is left out of the neighbours
NearbyNotYetHotspot(b, docs) ==
  SelectSeq(docs, LAMBDA o : HasPosition(o.data) /\ ~o.data.hotspot
                             /\ WithinRadius(b.lat, b.lon, o.data.lat, o.data.lon))

\* const nearby = mobileDocs.filter(...)
Nearby(b, docs) ==
  SelectSeq(docs, LAMBDA o : HasPosition(o.data)
                             /\ WithinRadius(b.lat, b.lon, o.data.lat, o.data.lon))

\* mutant: the threshold is off by one
ReachesThresholdOffByOne(n) == n >= HOTSPOT_THRESHOLD - 1

\* nearby.length >= HOTSPOT_THRESHOLD
ReachesThreshold(n) == n >= HOTSPOT_THRESHOLD

\* the promotion update; expiresAt is Date.now() + PRESERVE_HOTSPOT_DAYS * MS.DAY
\* and is taken from the clock when the write is issued
Promote(n) ==
  [op |-> "promote", id |-> n.id,
   confidence |-> Min(100, OrElse(n.data.confidence, 70) + 20),
   lastSeen |-> Max(OrElse(n.data.lastSeen, 0), OrElse(n.data.timestamp, 0))]

\* Number(x).toFixed(4), as the number of 0.0001 steps (x >= 0)
ToFixed4(x) == (x + 5) \div 10

RECURSIVE MaxTimestamp(_)
MaxTimestamp(ns) ==
  IF ns = <<>> THEN 0
  ELSE Max(OrElse(Head(ns).data.timestamp, 0), MaxTimestamp(Tail(ns)))

\* camera_hotspots.doc(hotspotId).set(hotspotDoc, { merge: true });
\* updatedAt is Date.now(), taken from the clock when the write is issued
Summary(b, nearby) ==
  [op |-> "set", key |-> <<ToFixed4(b.lat), ToFixed4(b.lon)>>,
   lat |-> b.lat, lon |-> b.lon, type |-> "mobile_camera",
   report_count |-> Len(nearby),
   lastReported |-> MaxTimestamp(nearby),
   confidence |-> Min(1, Len(nearby) \div HOTSPOT_THRESHOLD)]

\* for (const n of nearby) { if (nid.startsWith('r_')) continue; update(...) }
PromotionWrites(nearby) ==
  Concat([k \in 1..Len(nearby) |->
            IF nearby[k].src = "camera_reports" THEN <<>>
            ELSE <<Promote(nearby[k])>>])

\* one iteration of "for (const base of mobileDocs)"
SeedWrites(base, docs) ==
  IF ~HasPosition(base.data) \/ base.data.hotspot THEN <<>>
  ELSE LET nearby == Nearby(base.data, docs)
       IN IF ReachesThreshold(Len(nearby))
          THEN PromotionWrites(nearby) \o <<Summary(base.data, nearby)>>
          ELSE <<>>

ClusterPlan(docs) ==
  Concat([k \in 1..Len(docs) |-> SeedWrites(docs[k], docs)])

----------------------------------------------------------------------------
(* The store: Firestore update / delete / set-with-merge                   *)

ApplyPatch(doc, patch) ==
  [f \in DOMAIN doc |-> IF f \in DOMAIN patch THEN patch[f] ELSE doc[f]]

\* the fields an update or promotion write sets, the clock being Date.now()
PatchOf(w, t) ==
  IF w.op = "promote"
  THEN [hotspot |-> TRUE, confidence |-> w.confidence,
        expiresAt |-> t + PRESERVE_HOTSPOT_DAYS * MS_DAY, lastSeen |-> w.lastSeen]
  ELSE w.patch

\* DocumentReference.update() rejects (NOT_FOUND) when the document does not exist
Rejected(w, cams) == w.op \in {"update", "promote"} /\ cams[w.id] = NoDoc

CamerasAfter(w, cams, t) ==
  IF w.op = "delete" THEN [cams EXCEPT ![w.id] = NoDoc]
  ELSE IF w.op \in {"update", "promote"}
       THEN [cams EXCEPT ![w.id] = ApplyPatch(cams[w.id], PatchOf(w, t))]
       ELSE cams

SummaryDoc(w, t) ==
  [id |-> w.key, lat |-> w.lat, lon |-> w.lon, type |-> w.type,
   report_count |-> w.report_count, lastReported |-> w.lastReported,
   confidence |-> w.confidence, updatedAt |-> t]

HotspotsAfter(w, hs, t) ==
  IF w.op = "set"
  THEN {h \in hs : h.id # w.key} \cup {SummaryDoc(w, t)}
  ELSE hs

----------------------------------------------------------------------------
(* Initial stores                                                          *)

Doc(type, timestamp, count, confidence, hotspot, expiresAt, removed, lastSeen, lat, lon) ==
  [type |-> type, timestamp |-> timestamp, count |-> count,
   confidence |-> confidence, hotspot |-> hotspot, expiresAt |-> expiresAt,
   removed |-> removed, removedByWorker |-> FALSE, lastSeen |-> lastSeen,
   lat |-> lat, lon |-> lon]

\* documents in the lifecycle situations of the per-doc pass, all at one place
LifeDocs ==
  LET c == Clock0 IN
  { Doc("mobile_camera", c - 5, 1, 70, FALSE, c + 5, FALSE, c - 5, 70, 30),
    Doc("", Undef, Undef, Undef, FALSE, Undef, FALSE, Undef, 70, 30),
    Doc("mobile_camera", c - 300, 0, Undef, FALSE, c + 50, FALSE, c - 300, 70, 30),
    Doc("mobile_camera", c - 20, 1, 70, FALSE, c - 10, FALSE, c - 20, 70, 30),
    Doc("mobile_camera", c - 300, 0, 90, TRUE, c - 10, FALSE, c - 300, 70, 30),
    Doc("fixed_camera", c - 300, -4, Undef, FALSE, c - 290, FALSE, Undef, 70, 30),
    Doc("fixed_camera", c - 300, -2, 100, TRUE, Undef, FALSE, Undef, 70, 30),
    Doc("other", c - 300, 2, 70, FALSE, Undef, FALSE, Undef, 70, 30),
    Doc("mobile_camera", c - 5, 1, 70, FALSE, c - 1, TRUE, Undef, 70, 30),
    Doc("mobile_camera", 0, 1, 0, FALSE, 0, FALSE, 0, 70, 30) }

\* where document i lies in each layout
Position(layout, i) ==
  CASE layout = "example" ->
         IF i = 1 THEN <<0, 0>> ELSE IF i = 2 THEN <<50, 0>>
         ELSE IF i = 3 THEN <<0, 50>> ELSE <<50, 50>>
    [] layout = "line" -> <<50 + 60 * (i - 1), 50>>
    [] layout = "cell" -> <<50 + i, 50>>
    [] layout = "chain" -> <<50 + 150 * (i - 1), 50>>

Layouts == {"example", "line", "cell", "chain"}

\* recent mobile documents: active, already hotspot, or voted down
ClusterDoc(kind, pos) ==
  LET c == Clock0 IN
  CASE kind = "active" ->
         Doc("mobile_camera", c, 1, 70, FALSE, c + 10, FALSE, c, pos[1], pos[2])
    [] kind = "hotspot" ->
         Doc("mobile_camera", c - 20, 1, 90, TRUE, c + 200, FALSE, c - 20, pos[1], pos[2])
    [] kind = "voted" ->
         Doc("mobile_camera", c - 30, 0, 70, FALSE, c - 20, FALSE, c - 30, pos[1], pos[2])

ClusterKinds == {"active", "hotspot", "voted"}

\* stores of up to two such documents, under any two ids
LifeStores ==
  { s \in [Ids -> LifeDocs \cup {NoDoc}] :
      \E i, j \in Ids : \A k \in Ids \ {i, j} : s[k] = NoDoc }

\* active documents in one of the layouts, at most one of them of another kind
ClusterStores ==
  { [i \in Ids |-> ClusterDoc(kinds[i], Position(layout, i))] :
      kinds \in {ks \in [Ids -> ClusterKinds] :
                   \E j \in Ids : \A k \in Ids \ {j} : ks[k] = "active"},
      layout \in Layouts }

Report(timestamp, lat, lon) ==
  Doc("mobile_camera", timestamp, Undef, Undef, FALSE, Undef, FALSE, Undef, lat, lon)

\* no raw reports, or two recent ones and one from before the lookback window
ReportSets ==
  { <<>>,
    << Report(Clock0 - 1, 60, 50), Report(Clock0 - 300, 60, 50),
       Report(Clock0 - 2, 55, 55) >> }

IdleInvocation ==
  [pc |-> "idle", now |-> Undef, snap |-> [i \in Ids |-> NoDoc],
   queue |-> <<>>, log |-> <<>>, dirty |-> FALSE,
   passNo |-> 0, prevNow |-> Undef, reports |-> "unread", prevReports |-> "unread"]

Init ==
  /\ cameras \in LifeStores \cup ClusterStores
  /\ camera_hotspots = {}
  /\ camera_reports \in ReportSets
  /\ clock = Clock0
  /\ ticks = 0
  /\ inv = [w \in Workers |-> IdleInvocation]
  /\ deleted = {}

----------------------------------------------------------------------------
(* main()                                                                  *)

\* const now = Date.now(); const camsSnap = await db.collection('cameras').get()
StartPass(w) ==
  /\ inv[w].pc \in {"idle", "done", "failed"}
  /\ inv[w].passNo < MaxPasses
  /\ inv' = [inv EXCEPT ![w] =
       [pc |-> "maint", now |-> clock, snap |-> cameras,
        queue |-> MaintPlan(cameras, clock), log |-> <<>>, dirty |-> FALSE,
        passNo |-> inv[w].passNo + 1,
        prevNow |-> inv[w].now,
        reports |-> "unread", prevReports |-> inv[w].reports]]
  /\ UNCHANGED <<cameras, camera_hotspots, camera_reports, clock, ticks, deleted>>

\* one awaited write: update(), delete() or set(); a rejected write throws,
\* and main().catch ends the process with exit code 1
Write(w) ==
  /\ inv[w].pc \in {"maint", "cluster"}
  /\ inv[w].queue # <<>>
  /\ LET wr == Head(inv[w].queue) IN
     IF Rejected(wr, cameras)
     THEN /\ inv' = [inv EXCEPT ![w].pc = "failed"]
          /\ UNCHANGED <<cameras, camera_hotspots, deleted>>
     ELSE /\ cameras' = CamerasAfter(wr, cameras, clock)
          /\ camera_hotspots' = HotspotsAfter(wr, camera_hotspots, clock)
          /\ deleted' =
               IF wr.op = "delete" /\ cameras[wr.id] # NoDoc
               THEN deleted \cup {[id |-> wr.id, doc |-> cameras[wr.id],
                                   now |-> inv[w].now]}
               ELSE deleted
          /\ inv' = [inv EXCEPT
               ![w].queue = Tail(@),
               ![w].log = Append(@, wr),
               ![w].dirty = @ \/ cameras' # cameras
                              \/ camera_hotspots' # camera_hotspots]
  /\ UNCHANGED <<camera_reports, clock, ticks>>

\* a write the store rejects for any other reason (network error, permission)
RejectWrite(w) ==
  /\ inv[w].pc \in {"maint", "cluster"}
  /\ inv[w].queue # <<>>
  /\ inv' = [inv EXCEPT ![w].pc = "failed"]
  /\ UNCHANGED <<cameras, camera_hotspots, camera_reports, clock, ticks, deleted>>

\* what the hotspot pass will write, given the raw reports that were read
ClusterQueue(w, reportDocs) ==
  ClusterPlan(mobileDocs(CamsAfterMaint(inv[w].snap, inv[w].now),
                         reportDocs, inv[w].now))

\* 1b) try { reportDocs = camera_reports ... .get() }
FetchReports(w) ==
  /\ inv[w].pc = "maint"
  /\ inv[w].queue = <<>>
  /\ inv' = [inv EXCEPT
       ![w].pc = "cluster", ![w].reports = "read",
       ![w].queue = ClusterQueue(w, ReportDocs(camera_reports, inv[w].now))]
  /\ UNCHANGED <<cameras, camera_hotspots, camera_reports, clock, ticks, deleted>>

\* mutant: after a failed read the hotspot pass still works on raw reports
FetchReportsFailsWithReports(w) ==
  /\ inv[w].pc = "maint"
  /\ inv[w].queue = <<>>
  /\ inv' = [inv EXCEPT
       ![w].pc = "cluster", ![w].reports = "unavailable",
       ![w].queue = ClusterQueue(w, ReportDocs(camera_reports, inv[w].now))]
  /\ UNCHANGED <<cameras, camera_hotspots, camera_reports, clock, ticks, deleted>>

\* 1b) catch (err) { /* ignore */ }: reportDocs stays []
FetchReportsFails(w) ==
  /\ inv[w].pc = "maint"
  /\ inv[w].queue = <<>>
  /\ inv' = [inv EXCEPT
       ![w].pc = "cluster", ![w].reports = "unavailable",
       ![w].queue = ClusterQueue(w, <<>>)]
  /\ UNCHANGED <<cameras, camera_hotspots, camera_reports, clock, ticks, deleted>>

\* console.log('Cleanup + hotspot worker finished.'); process.exit(0)
Finish(w) ==
  /\ inv[w].pc = "cluster"
  /\ inv[w].queue = <<>>
  /\ inv' = [inv EXCEPT ![w].pc = "done"]
  /\ UNCHANGED <<cameras, camera_hotspots, camera_reports, clock, ticks, deleted>>

\* how far the clock may advance in one step: an hour, or past the lookback window
TickSteps == {1, HOTSPOT_WINDOW_DAYS * MS_DAY + 1}

Running(w) == inv[w].pc \in {"maint", "cluster"}

\* w has read the raw reports and is about to issue the first write of the
\* hotspot pass, which takes a value from Date.now()
ReadsClock(w) ==
  /\ inv[w].pc = "cluster"
  /\ inv[w].queue # <<>>
  /\ \A k \in 1..Len(inv[w].log) : inv[w].log[k].op \notin {"promote", "set"}

\* time passes, between invocations or during one.  A running invocation reads
\* the clock only in its promotion and summary writes, so an advance before the
\* first of them stands for any advance during the per-doc pass and the read of
\* the raw reports; advances between two writes of the hotspot pass are left out
\* of the model, and an invocation lasts less than the lookback window
Tick ==
  /\ ticks < MaxTicks
  /\ \A w \in Workers : Running(w) => ReadsClock(w)
  /\ \E step \in TickSteps :
       /\ step > 1 => \A w \in Workers : ~Running(w)
       /\ clock' = clock + step
  /\ ticks' = ticks + 1
  /\ UNCHANGED <<cameras, camera_hotspots, camera_reports, inv, deleted>>

\* the scheduled job: one invocation after the other
Next ==
  \/ StartPass(1)
  \/ Write(1)
  \/ FetchReports(1)
  \/ FetchReportsFails(1)
  \/ Finish(1)
  \/ Tick

Spec == Init /\ [][Next]_vars

TypeOK ==
  /\ \A i \in Ids : cameras[i] = NoDoc \/ cameras[i].type \in {"", "mobile_camera", "fixed_camera", "other"}
  /\ \A w \in Workers : inv[w].pc \in {"idle", "maint", "cluster", "done", "failed"}

----------------------------------------------------------------------------
(* Properties                                                              *)

\* C1: running the full pass a second time, with no change in between and at the
\* same instant, issues no write that changes the store
SecondRunIdempotent ==
  \A w \in Workers :
    (/\ inv[w].passNo >= 2
     /\ inv[w].prevNow = inv[w].now
     /\ inv[w].prevReports = "read"
     /\ clock = inv[w].now) => ~inv[w].dirty

\* the document of record i as the pass of w evaluates it (defaults filled in)
Evaluated(w, i) == InMem(inv[w].snap[i], inv[w].now)

\* record i was in the snapshot of w and is of kind mobile or other
Tracked(w, i) ==
  inv[w].snap[i] # NoDoc /\ TypeOf(inv[w].snap[i]) # "fixed_camera"

\* the per-doc pass of w has run over every record
Maintained(w) == inv[w].pc \in {"cluster", "done"}

\* the writes the pass of w has issued so far
Issued(w) == {inv[w].log[k] : k \in 1..Len(inv[w].log)}

\* C2: a fixed record is never physically deleted, and the job never makes a
\* hidden fixed record visible again
FixedNeverDeleted ==
  [][\A i \in Ids :
       (cameras[i] # NoDoc /\ cameras[i].type = "fixed_camera")
         => /\ cameras'[i] # NoDoc
            /\ cameras[i].removed => cameras'[i].removed]_vars

\* C2 witness: a voted-down, expired fixed record was hidden by a pass and is
\* still in the store
FixedHiddenNotDeleted ==
  \E w \in Workers, i \in Ids :
    /\ inv[w].pc = "done"
    /\ inv[w].snap[i] # NoDoc
    /\ inv[w].snap[i].type = "fixed_camera"
    /\ inv[w].snap[i].count <= -3
    /\ inv[w].snap[i].expiresAt < inv[w].now
    /\ ~inv[w].snap[i].removed
    /\ cameras[i] # NoDoc /\ cameras[i].removed

\* the candidates of the claims about clustering: mobile records with coordinates
\* whose timestamp, as evaluated, lies in the lookback window
Candidate(w, i) ==
  /\ Tracked(w, i)
  /\ TypeOf(inv[w].snap[i]) = "mobile_camera"
  /\ inv[w].snap[i].lat # Undef /\ inv[w].snap[i].lon # Undef
  /\ Evaluated(w, i).timestamp >= inv[w].now - 240

\* two places at most 200 m apart (1.11 m per coordinate unit)
CloseBy(a, b) ==
  LET dlat2 == (a.lat - b.lat) * (a.lat - b.lat)
      dlon2 == (a.lon - b.lon) * (a.lon - b.lon)
  IN /\ dlat2 <= 40000 /\ dlon2 <= 40000
     /\ 111 * 111 * (dlat2 + dlon2) <= 20000 * 20000

\* C3: N >= threshold mobile records pairwise within the radius and in the window,
\* and no other candidate: after the pass all are hotspot and exactly one summary
\* exists, with report_count = N
ClusterPromotedOnce ==
  \A w \in Workers :
    LET C == {i \in Ids : Candidate(w, i)} IN
    (/\ inv[w].pc = "done" /\ inv[w].passNo = 1
     /\ camera_reports = <<>>
     /\ Cardinality(C) >= 3
     /\ \A i \in Ids : inv[w].snap[i] # NoDoc => i \in C /\ ~inv[w].snap[i].hotspot
     /\ \A i, j \in C : CloseBy(inv[w].snap[i], inv[w].snap[j]))
    => /\ \A i \in C : cameras[i] # NoDoc /\ cameras[i].hotspot
       /\ Cardinality(camera_hotspots) = 1
       /\ \A h \in camera_hotspots : h.report_count = Cardinality(C)

\* C4: a mobile/other record that is hotspot is never deleted, and a pass that
\* evaluates it with expiresAt < now leaves it with expiresAt >= now + preserve days
HotspotPreserved ==
  /\ \A e \in deleted : ~e.doc.hotspot
  /\ \A w \in Workers, i \in Ids :
       (/\ Maintained(w) /\ Tracked(w, i)
        /\ inv[w].snap[i].hotspot
        /\ Evaluated(w, i).expiresAt < inv[w].now)
       => /\ cameras[i] # NoDoc
          /\ cameras[i].expiresAt >= inv[w].now + 240

\* C4 witness: a pass has extended an expired hotspot record
HotspotExtended ==
  \E w \in Workers, i \in Ids :
    /\ inv[w].pc = "done" /\ Tracked(w, i)
    /\ inv[w].snap[i].hotspot
    /\ inv[w].snap[i].expiresAt # Undef
    /\ inv[w].snap[i].expiresAt < inv[w].now
    /\ cameras[i] # NoDoc
    /\ cameras[i].expiresAt = inv[w].now + 240

\* C5: a mobile/other record evaluated with count <= 0, hotspot false and a
\* timestamp before the lookback window is physically deleted by the pass
VotedDownOldDeleted ==
  \A w \in Workers, i \in Ids :
    (/\ Maintained(w) /\ Tracked(w, i)
     /\ CountOf(inv[w].snap[i]) <= 0
     /\ ~inv[w].snap[i].hotspot
     /\ Evaluated(w, i).timestamp < inv[w].now - 240)
    => cameras[i] = NoDoc

\* C5 witness: such a record, not yet expired, has been deleted
VotedDownOldGone ==
  \E w \in Workers, i \in Ids :
    /\ inv[w].pc = "done" /\ Tracked(w, i)
    /\ inv[w].snap[i].count = 0
    /\ ~inv[w].snap[i].hotspot
    /\ inv[w].snap[i].timestamp # Undef
    /\ inv[w].snap[i].timestamp < inv[w].now - 240
    /\ inv[w].snap[i].expiresAt > inv[w].now
    /\ cameras[i] = NoDoc
    /\ \E e \in deleted : e.id = i /\ e.now = inv[w].now

\* C6: a mobile/other record evaluated with count <= 0, hotspot false and a
\* timestamp inside the lookback window stays in the store, with removed = true
VotedDownRecentHidden ==
  \A w \in Workers, i \in Ids :
    (/\ Maintained(w) /\ Tracked(w, i)
     /\ CountOf(inv[w].snap[i]) <= 0
     /\ ~inv[w].snap[i].hotspot
     /\ Evaluated(w, i).timestamp >= inv[w].now - 240)
    => /\ cameras[i] # NoDoc
       /\ cameras[i].removed

\* C6 witness: a pass has hidden such a record, which is still stored
VotedDownRecentKept ==
  \E w \in Workers, i \in Ids :
    /\ inv[w].pc = "done" /\ Tracked(w, i)
    /\ inv[w].snap[i].count = 0
    /\ ~inv[w].snap[i].hotspot /\ ~inv[w].snap[i].removed
    /\ inv[w].snap[i].timestamp # Undef
    /\ inv[w].snap[i].timestamp >= inv[w].now - 240
    /\ inv[w].snap[i].timestamp < inv[w].now - 10
    /\ cameras[i] # NoDoc /\ cameras[i].removed /\ cameras[i].removedByWorker

----------------------------------------------------------------------------
(* Rejected writes                                                         *)

NextFail == Next \/ RejectWrite(1)

SpecFail == Init /\ [][NextFail]_vars

\* the record or summary a write is addressed to
Target(wr) ==
  IF wr.op = "set" THEN <<"camera_hotspots", 0, wr.key>> ELSE <<"cameras", wr.id, <<>>>>

\* C8: a write that fails for one record does not keep the pass from issuing the
\* writes of the other records: when the invocation is over, the only writes
\* not issued are those of the record whose write failed
FailureIsolated ==
  \A w \in Workers :
    inv[w].pc = "failed" =>
      \A k \in 1..Len(inv[w].queue) :
        Target(inv[w].queue[k]) = Target(Head(inv[w].queue))

----------------------------------------------------------------------------
(* Overlapping invocations                                                 *)

\* a second invocation that reads the same snapshot at the same instant
StartOverlapping(w) ==
  /\ inv[w].pc = "idle"
  /\ \A v \in Workers : inv[v].pc \in {"idle", "maint"} /\ inv[v].log = <<>>
  /\ StartPass(w)

NextOverlap ==
  \E w \in Workers :
    \/ StartOverlapping(w)
    \/ Write(w)
    \/ FetchReports(w)
    \/ FetchReportsFails(w)
    \/ Finish(w)

SpecOverlap == Init /\ [][NextOverlap]_vars

RECURSIVE CamerasAfterAll(_, _, _)
CamerasAfterAll(writes, cams, t) ==
  IF writes = <<>> THEN cams
  ELSE CamerasAfterAll(Tail(writes), CamerasAfter(Head(writes), cams, t), t)

\* the cameras collection one invocation alone leaves behind
AloneResult(w) ==
  CamerasAfterAll(
    MaintPlan(inv[w].snap, inv[w].now)
      \o ClusterQueue(w, IF inv[w].reports = "read"
                         THEN ReportDocs(camera_reports, inv[w].now) ELSE <<>>),
    inv[w].snap, inv[w].now)

\* C9: two invocations that read the same snapshot (and the same raw reports)
\* both run to completion, whatever the order of their writes, and leave the
\* store as one alone would
OverlapHarmless ==
  /\ \A w \in Workers : inv[w].pc # "failed"
  /\ (\A v, w \in Workers : inv[w].pc = "done" /\ inv[v].reports = inv[w].reports)
       => \A w \in Workers : cameras = AloneResult(w)

\* the raw reports that count as candidates: read, recent and with coordinates
ReportCandidates(w) ==
  IF inv[w].reports # "read" THEN {}
  ELSE {j \in 1..Len(camera_reports) :
          /\ camera_reports[j].timestamp # Undef
          /\ camera_reports[j].timestamp >= inv[w].now - 240
          /\ camera_reports[j].lat # Undef /\ camera_reports[j].lon # Undef}

\* the candidates of the pass of w, records and raw reports, with their places
Places(w) ==
  {[lat |-> inv[w].snap[i].lat, lon |-> inv[w].snap[i].lon, src |-> "c", n |-> i] :
     i \in {i \in Ids : Candidate(w, i)}}
  \cup {[lat |-> camera_reports[j].lat, lon |-> camera_reports[j].lon,
         src |-> "r", n |-> j] : j \in ReportCandidates(w)}

\* no candidate has three candidates (itself included) within the radius
BelowThreshold(w) ==
  \A b \in Places(w) : Cardinality({o \in Places(w) : CloseBy(b, o)}) < 3

\* C10: when no candidate has threshold-many records or reports (itself
\* included) within the radius, the pass promotes nothing and writes no summary
\* (stated by contraposition: a hotspot pass that has a promotion or summary to
\* write, or has written one, has a candidate that reaches the threshold)
NoClusterBelowThreshold ==
  \A w \in Workers :
    (/\ inv[w].pc \in {"cluster", "done"}
     /\ \/ inv[w].queue # <<>>
        \/ \E k \in 1..Len(inv[w].log) : inv[w].log[k].op \in {"promote", "set"})
    => ~BelowThreshold(w)

\* C10 witness: a pass over two candidates within the radius of each other has
\* finished without promoting either
TwoCandidatesNotPromoted ==
  \E w \in Workers :
    /\ inv[w].pc = "done" /\ BelowThreshold(w)
    /\ \E b \in Places(w) : Cardinality({o \in Places(w) : CloseBy(b, o)}) = 2
    /\ \A i \in Ids : Candidate(w, i) => ~cameras[i].hotspot
    /\ camera_hotspots = {}

----------------------------------------------------------------------------
(* The fixed-camera branch                                                 *)

\* record i was in the snapshot of w and is a fixed camera
FixedRecord(w, i) ==
  inv[w].snap[i] # NoDoc /\ TypeOf(inv[w].snap[i]) = "fixed_camera"

\* C11: after the per-doc pass a fixed record is still stored; read with
\* count <= -3 and not removed, it has removed, removedByWorker and hotspot set
\* and lastSeen = now; read with count > -3, its removed flags are as read
FixedHiddenAtThreshold ==
  \A w \in Workers, i \in Ids :
    (Maintained(w) /\ FixedRecord(w, i)) =>
      /\ cameras[i] # NoDoc
      /\ (CountOf(inv[w].snap[i]) <= -3 /\ ~inv[w].snap[i].removed)
           => /\ cameras[i].removed /\ cameras[i].removedByWorker
              /\ cameras[i].lastSeen = inv[w].now
              /\ cameras[i].hotspot
      /\ CountOf(inv[w].snap[i]) > -3
           => /\ cameras[i].removed = inv[w].snap[i].removed
              /\ cameras[i].removedByWorker = inv[w].snap[i].removedByWorker

\* C11 witness: one pass has hidden a fixed record with count -4 and left a
\* fixed record with count -2 visible
FixedHiddenAndFixedKept ==
  \E w \in Workers, i, j \in Ids :
    /\ inv[w].pc = "done" /\ FixedRecord(w, i) /\ FixedRecord(w, j)
    /\ inv[w].snap[i].count = -4 /\ ~inv[w].snap[i].removed
    /\ cameras[i] # NoDoc /\ cameras[i].removed /\ cameras[i].removedByWorker
    /\ cameras[i].lastSeen = inv[w].now /\ cameras[i].hotspot
    /\ inv[w].snap[j].count = -2
    /\ cameras[j] # NoDoc /\ ~cameras[j].removed

----------------------------------------------------------------------------
(* The raw reports cannot be read                                          *)

\* record i is a candidate of the pass of w that the hotspot pass can place
LocalPlace(w, i) ==
  /\ Candidate(w, i)
  /\ inv[w].snap[i].lat # 0 /\ inv[w].snap[i].lon # 0

\* the cameras records within the radius of record b
LocalNear(w, b) ==
  {i \in Ids : LocalPlace(w, i) /\ CloseBy(inv[w].snap[b], inv[w].snap[i])}

\* the records that seed a cluster when only cameras records are counted
LocalSeeds(w) ==
  {b \in Ids : /\ LocalPlace(w, b) /\ ~inv[w].snap[b].hotspot
               /\ Cardinality(LocalNear(w, b)) >= 3}

\* C12: a pass that could not read the raw reports is not aborted; it finishes,
\* and what it promoted and summarised is what clustering over the cameras
\* records alone gives
ReportsUnavailableTolerated ==
  \A w \in Workers :
    inv[w].reports = "unavailable" =>
      /\ inv[w].pc \in {"cluster", "done"}
      /\ inv[w].pc = "done" =>
           /\ {wr.id : wr \in {x \in Issued(w) : x.op = "promote"}}
                = UNION {LocalNear(w, b) : b \in LocalSeeds(w)}
           /\ \A b \in LocalSeeds(w) : \A i \in LocalNear(w, b) :
                cameras[i] # NoDoc /\ cameras[i].hotspot
           /\ {<<wr.lat, wr.lon, wr.report_count>> :
                  wr \in {x \in Issued(w) : x.op = "set"}}
                = {<<inv[w].snap[b].lat, inv[w].snap[b].lon,
                     Cardinality(LocalNear(w, b))>> : b \in LocalSeeds(w)}

\* C12 witness: raw reports exist, the read failed, and the pass has finished
\* after promoting a cluster of cameras records and writing its summary
ClusteredWithoutReports ==
  \E w \in Workers :
    /\ inv[w].pc = "done" /\ inv[w].reports = "unavailable"
    /\ camera_reports # <<>>
    /\ LocalSeeds(w) # {}
    /\ \E h \in camera_hotspots : h.report_count = 3
    /\ \A b \in LocalSeeds(w) : cameras[b].hotspot

----------------------------------------------------------------------------
(* Deletion is deferred past the lookback window                           *)

\* C13: every document the job deletes has, when it is deleted, a timestamp
\* before now - 10 days; a record evaluated with a timestamp inside the window,
\* or read without a timestamp, is still stored after the per-doc pass
DeletionDeferred ==
  /\ \A e \in deleted :
       e.doc.timestamp # Undef /\ e.doc.timestamp < e.now - 240
  /\ \A w \in Workers, i \in Ids :
       (/\ Maintained(w) /\ inv[w].snap[i] # NoDoc
        /\ \/ Evaluated(w, i).timestamp >= inv[w].now - 240
           \/ inv[w].snap[i].timestamp = Undef)
       => cameras[i] # NoDoc

\* C13 witness: one pass has deleted an expired record from before the window
\* and kept an expired record from inside it, and a record read without a
\* timestamp and without votes is kept too
OldDeletedRecentKept ==
  \E w \in Workers, i, j \in Ids :
    /\ inv[w].pc = "done" /\ Tracked(w, i) /\ Tracked(w, j)
    /\ \E e \in deleted :
         /\ e.id = i /\ e.now = inv[w].now
         /\ e.doc.count > 0 /\ e.doc.expiresAt < e.now
    /\ cameras[i] = NoDoc
    /\ \/ /\ inv[w].snap[j].timestamp = Undef /\ CountOf(inv[w].snap[j]) = 0
          /\ cameras[j] # NoDoc /\ cameras[j].timestamp = inv[w].now
       \/ /\ CountOf(inv[w].snap[j]) > 0 /\ ~inv[w].snap[j].hotspot
          /\ Evaluated(w, j).expiresAt < inv[w].now
          /\ inv[w].snap[j].timestamp >= inv[w].now - 240
          /\ cameras[j] # NoDoc /\ cameras[j].removed

----------------------------------------------------------------------------
(* Seeds of the hotspot pass                                               *)

\* the write at place l of the log of w is the summary of a seed lying where
\* record i lies (a candidate lying there is in every cluster record i is in)
SummaryAt(w, l, i) ==
  /\ inv[w].log[l].op = "set"
  /\ inv[w].log[l].lat = inv[w].snap[i].lat
  /\ inv[w].log[l].lon = inv[w].snap[i].lon

\* C14: a record promoted by the cluster of an earlier seed (whose summary has
\* been written) is not the seed of a later cluster of the same pass; stated
\* for stores without raw reports, where every seed is a cameras record
PromotedNotSeedAgain ==
  \A w \in Workers :
    \A j, k, l \in 1..Len(inv[w].log) :
      (/\ camera_reports = <<>>
       /\ j < k /\ k < l
       /\ inv[w].log[j].op = "promote"
       /\ inv[w].log[k].op = "set")
      => ~SummaryAt(w, l, inv[w].log[j].id)

\* the candidates of the pass of w that the hotspot pass can place, as read
\* into memory before any promotion
Placed(w) == {o \in Places(w) : o.lat # 0 /\ o.lon # 0}

OnlyRecordsSeed ==
  \A w \in Workers :
    LET open == {i \in Ids : Candidate(w, i) /\ ~inv[w].snap[i].hotspot} IN
    /\ \A wr \in Issued(w) :
         wr.op = "set" =>
           \E i \in open : /\ inv[w].snap[i].lat = wr.lat
                            /\ inv[w].snap[i].lon = wr.lon
    /\ open = {} => \A wr \in Issued(w) : wr.op \notin {"promote", "set"}

\* the candidates read within the radius of record b
NearRecord(w, b) == {o \in Placed(w) : CloseBy(inv[w].snap[b], o)}

\* the cameras records that are in the neighbour set of a seed record of w
\* that reaches the threshold
InCluster(w) ==
  {i \in Ids :
     \E b \in Ids :
       /\ Candidate(w, b) /\ ~inv[w].snap[b].hotspot
       /\ inv[w].snap[b].lat # 0 /\ inv[w].snap[b].lon # 0
       /\ Cardinality(NearRecord(w, b)) >= 3
       /\ \E o \in NearRecord(w, b) : o.src = "c" /\ o.n = i}

\* C17: every update and delete of a pass is addressed to a cameras record of
\* its snapshot, and when the pass is over (no time having passed) every
\* cameras record of a qualifying neighbour set has hotspot = true,
\* confidence = min(100, confidence + 20), expiresAt = now + 10 days and
\* lastSeen = max(lastSeen, timestamp)
PromotionPatch ==
  \A w \in Workers :
    /\ \A wr \in Issued(w) : wr.op # "set" => inv[w].snap[wr.id] # NoDoc
    /\ (inv[w].pc = "done" /\ clock = inv[w].now) =>
         \A i \in InCluster(w) :
           /\ cameras[i] # NoDoc /\ cameras[i].hotspot
           /\ cameras[i].confidence = Min(100, Evaluated(w, i).confidence + 20)
           /\ cameras[i].expiresAt = inv[w].now + 240
           /\ cameras[i].lastSeen
                = Max(Evaluated(w, i).lastSeen, Evaluated(w, i).timestamp)

----------------------------------------------------------------------------
(* Normalisation of missing fields                                         *)

\* C18: after one pass every record of the snapshot that is still stored has
\* timestamp, confidence and lastSeen set, and expiresAt too unless it is fixed
EveryRecordNormalized ==
  \A w \in Workers, i \in Ids :
    (inv[w].pc = "done" /\ inv[w].snap[i] # NoDoc /\ cameras[i] # NoDoc) =>
      /\ cameras[i].timestamp # Undef
      /\ cameras[i].confidence # Undef
      /\ cameras[i].lastSeen # Undef
      /\ ~FixedRecord(w, i) => cameras[i].expiresAt # Undef

\* the fields the normaliser fills in
NormalizedFields == {"timestamp", "confidence", "expiresAt", "lastSeen"}

\* C19: a write of the normaliser (an update of one of its fields alone) is
\* issued only for a field that had no value in the record as read
NormalizerWritesOnce ==
  \A w \in Workers : \A wr \in Issued(w) :
    (wr.op = "update" /\ \E f \in NormalizedFields : DOMAIN wr.patch = {f})
      => \A f \in DOMAIN wr.patch : inv[w].snap[wr.id][f] = Undef

----------------------------------------------------------------------------
(* Repeated passes while time advances                                     *)

\* the next scheduled invocation: it starts once the time to the next run
\* has passed
StartScheduled(w) ==
  /\ inv[w].passNo = ticks
  /\ StartPass(w)

\* the time between two scheduled invocations passes, here more than the
\* lookback window
Elapse ==
  /\ ticks < MaxTicks
  /\ inv[1].pc = "done"
  /\ ticks < inv[1].passNo
  /\ clock' = clock + HOTSPOT_WINDOW_DAYS * MS_DAY + 1
  /\ ticks' = ticks + 1
  /\ UNCHANGED <<cameras, camera_hotspots, camera_reports, inv, deleted>>

NextLive ==
  \/ StartScheduled(1)
  \/ Write(1)
  \/ FetchReports(1)
  \/ FetchReportsFails(1)
  \/ Finish(1)
  \/ Elapse

\* the enabling condition of StartScheduled(w), which always changes passNo
CanStart(w) ==
  /\ inv[w].passNo = ticks
  /\ inv[w].pc \in {"idle", "done", "failed"}
  /\ inv[w].passNo < MaxPasses

\* the enabling condition of FetchReports(w) and of FetchReportsFails(w), which
\* always change pc
CanFetch(w) == inv[w].pc = "maint" /\ inv[w].queue = <<>>

\* weak fairness of StartScheduled(w), with ENABLED written out as CanStart(w):
\* the schedule keeps starting the job
StartsFairly(w) ==
  <>[]CanStart(w) => []<><<StartScheduled(w)>>_vars

\* weak fairness of the read of the raw reports, with ENABLED written out as
\* CanFetch(w): the awaited get() returns or throws
FetchesFairly(w) ==
  <>[]CanFetch(w) => []<><<FetchReports(w) \/ FetchReportsFails(w)>>_vars

\* the schedule keeps starting the job, every awaited call returns, time passes
SpecLive ==
  /\ Init /\ [][NextLive]_vars
  /\ StartsFairly(1) /\ FetchesFairly(1)
  /\ WF_vars(Write(1)) /\ WF_vars(Finish(1)) /\ WF_vars(Elapse)

\* record i is evaluated by the pass of w as not hotspot, with its count or
\* expiry test failed and its timestamp before the lookback window
DueForDeletion(w, i) ==
  /\ Tracked(w, i) /\ ~inv[w].snap[i].hotspot
  /\ \/ CountOf(inv[w].snap[i]) <= 0
     \/ Evaluated(w, i).expiresAt < inv[w].now
  /\ Evaluated(w, i).timestamp < inv[w].now - 240

\* C20: a pass that evaluates a mobile/other record as not hotspot, failed and
\* older than the window deletes it, hidden before or not; and under repeated
\* passes with advancing time every record is in the end deleted, unless it is
\* fixed or its hotspot flag gets set
EventualDeletion ==
  /\ [](\A w \in Workers, i \in Ids :
         (Maintained(w) /\ DueForDeletion(w, i)) => cameras[i] = NoDoc)
  /\ \A i \in Ids :
       <>(\/ cameras[i] = NoDoc
          \/ cameras[i].type = "fixed_camera"
          \/ cameras[i].hotspot)

\* C20 witness: the second pass has deleted a record that the first pass had
\* hidden inside the window
HiddenThenDeleted ==
  \E w \in Workers, i \in Ids :
    /\ inv[w].pc = "done" /\ inv[w].passNo = 2
    /\ Tracked(w, i) /\ inv[w].snap[i].removedByWorker
    /\ cameras[i] = NoDoc
    /\ \E e \in deleted :
         /\ e.id = i /\ e.now = inv[w].now
         /\ e.doc.removed /\ e.doc.removedByWorker
         /\ e.doc.lastSeen = inv[w].prevNow

----------------------------------------------------------------------------
(* The immediate-delete draft of the job (src/scripts/cleanup.js)          *)
(* It differs from the job above in its configuration, in deleting a       *)
(* failed record at once, and in having no raw reports.  No time passes    *)
(* during a pass of the draft in this model.                               *)

Draft_MOBILE_EXPIRE_HOURS == 8
Draft_OTHER_EXPIRE_HOURS == 4
Draft_HOTSPOT_WINDOW_DAYS == 7
Draft_PRESERVE_HOTSPOT_DAYS == 7

Draft_hotspotWindowCutoff(now) == now - Draft_HOTSPOT_WINDOW_DAYS * MS_DAY

Draft_lifetimeHours(type) ==
  IF type = "other" THEN Draft_OTHER_EXPIRE_HOURS ELSE Draft_MOBILE_EXPIRE_HOURS

\* if (!d.expiresAt) { expiresAt = (Number(d.timestamp) || now) + lifetimeHours * MS.HOUR }
Draft_EnsureExpiresAt(d, now) ==
  IF ~Truthy(d.expiresAt)
  THEN [d EXCEPT !.expiresAt =
          OrElse(d.timestamp, now) + Draft_lifetimeHours(TypeOf(d)) * MS_HOUR]
  ELSE d

\* immediate deletion if count <= 0 and not hotspot; delete if expired and
\* not hotspot
Draft_LifecycleWrites(d, id, now) ==
  IF CountOf(d) <= 0 /\ ~d.hotspot THEN <<Delete(id)>>
  ELSE IF Truthy(d.expiresAt) /\ d.expiresAt < now /\ ~d.hotspot
       THEN <<Delete(id)>>
       ELSE <<>>

\* the in-memory document d after the per-doc pass of the draft
Draft_InMem(d, now) ==
  LET d2 == EnsureConfidence(EnsureTimestamp(d, now))
  IN IF IsFixed(TypeOf(d)) THEN [d2 EXCEPT !.hotspot = TRUE]
     ELSE EnsureLastSeen(Draft_EnsureExpiresAt(d2, now), now)

\* the writes of one iteration of "for (const cam of cams)" of the draft
Draft_MaintWrites(d, id, now) ==
  LET d1 == EnsureTimestamp(d, now)
      d2 == EnsureConfidence(d1)
      d3 == Draft_EnsureExpiresAt(d2, now)
      d4 == EnsureLastSeen(d3, now)
  IN FieldWrite(id, d, d1, "timestamp") \o FieldWrite(id, d1, d2, "confidence")
     \o (IF IsFixed(TypeOf(d)) THEN FixedWrites(d2, id, now)
         ELSE FieldWrite(id, d2, d3, "expiresAt")
              \o FieldWrite(id, d3, d4, "lastSeen")
              \o Draft_LifecycleWrites(d4, id, now))

Draft_MaintPlan(snap, now) ==
  Concat([i \in Ids |->
            IF snap[i] = NoDoc THEN <<>> ELSE Draft_MaintWrites(snap[i], i, now)])

\* cams after the per-doc pass: the array read at the start, every entry kept
Draft_Cams(snap, now) ==
  LET all == [i \in Ids |->
                IF snap[i] = NoDoc THEN NoDoc
                ELSE CamEntry(i, Draft_InMem(snap[i], now))]
  IN SelectSeq(all, LAMBDA e : e # NoDoc)

\* const mobileDocs = cams.filter(...)
Draft_mobileDocs(cams, now) ==
  SelectSeq(cams, LAMBDA e : /\ TypeOf(e.data) = "mobile_camera"
                             /\ Truthy(e.data.timestamp)
                             /\ e.data.timestamp >= Draft_hotspotWindowCutoff(now))

\* const nearby = mobileDocs.filter(...)
Draft_Nearby(b, docs, now) ==
  SelectSeq(docs, LAMBDA o : /\ HasPosition(o.data)
                             /\ o.data.timestamp >= Draft_hotspotWindowCutoff(now)
                             /\ WithinRadius(b.lat, b.lon, o.data.lat, o.data.lon))

\* the promotion update of the draft
Draft_Promote(n, now) ==
  Update(n.id,
         [hotspot |-> TRUE,
          confidence |-> Min(100, OrElse(n.data.confidence, 70) + 20),
          expiresAt |-> now + Draft_PRESERVE_HOTSPOT_DAYS * MS_DAY,
          lastSeen |-> Max(OrElse(n.data.lastSeen, 0), OrElse(n.data.timestamp, 0))])

\* one iteration of "for (const base of mobileDocs)" of the draft
Draft_SeedWrites(base, docs, now) ==
  IF base.data.hotspot THEN <<>>
  ELSE LET nearby == Draft_Nearby(base.data, docs, now)
       IN IF ReachesThreshold(Len(nearby))
          THEN [k \in 1..Len(nearby) |-> Draft_Promote(nearby[k], now)]
               \o <<Summary(base.data, nearby)>>
          ELSE <<>>

Draft_ClusterPlan(docs, now) ==
  Concat([k \in 1..Len(docs) |-> Draft_SeedWrites(docs[k], docs, now)])

\* const now = Date.now(); const camsSnap = await db.collection('cameras').get()
Draft_StartPass(w) ==
  /\ inv[w].pc \in {"idle", "done", "failed"}
  /\ inv[w].passNo < MaxPasses
  /\ inv' = [inv EXCEPT ![w] =
       [pc |-> "maint", now |-> clock, snap |-> cameras,
        queue |-> Draft_MaintPlan(cameras, clock), log |-> <<>>, dirty |-> FALSE,
        passNo |-> inv[w].passNo + 1,
        prevNow |-> inv[w].now,
        reports |-> "unread", prevReports |-> inv[w].reports]]
  /\ UNCHANGED <<cameras, camera_hotspots, camera_reports, clock, ticks, deleted>>

\* 2) the hotspot detection pass of the draft starts from cams
Draft_Detect(w) ==
  /\ inv[w].pc = "maint"
  /\ inv[w].queue = <<>>
  /\ inv' = [inv EXCEPT
       ![w].pc = "cluster",
       ![w].queue = Draft_ClusterPlan(
                      Draft_mobileDocs(Draft_Cams(inv[w].snap, inv[w].now),
                                       inv[w].now),
                      inv[w].now)]
  /\ UNCHANGED <<cameras, camera_hotspots, camera_reports, clock, ticks, deleted>>

NextDraft ==
  \/ Draft_StartPass(1)
  \/ Write(1)
  \/ Draft_Detect(1)
  \/ Finish(1)

SpecDraft == Init /\ [][NextDraft]_vars

\* C21: in the draft, a record the per-doc pass has deleted is no promotion
\* target later in the same pass: no update the pass has still to issue, or has
\* issued and seen rejected, is addressed to a record the pass has deleted
DraftClustersAfterMutation ==
  \A w \in Workers :
    \A k \in 1..Len(inv[w].queue) :
      inv[w].queue[k].op = "update" =>
        \A l \in 1..Len(inv[w].log) :
          ~(inv[w].log[l].op = "delete" /\ inv[w].log[l].id = inv[w].queue[k].id)

====
